---- MODULE Spec2Model ----
(***************************************************************************)
(* Model of ml4chem's Gaussian (Behler-Parrinello) fingerprint engine:     *)
(* Gaussian.calculate_features with its cache check, task construction,   *)
(* barrier, preprocessing, restacking and persistence, together with the   *)
(* symmetry-function table builder and the G2/G3/G4 evaluators.            *)
(*                                                                         *)
(* Numbers are fixed point.  Lengths are in tenths of an Angstrom and      *)
(* positions are one-dimensional, so that every distance is an integer and *)
(* every cosine is exactly +1 or -1.  Feature values, the exponential and  *)
(* the cutoff function are in thousandths.  eta is in thousandths.         *)
(***************************************************************************)
EXTENDS Integers, Sequences, FiniteSets, TLC

\* ------------------------------------------------------------------------
\* Bounds of the model
\* ------------------------------------------------------------------------

\* Number of distinct structure ids (hashes) a request can draw from.
NumIds == 2

\* Number of chemical elements a list of symbols can draw from.
NumSymbols == 3

\* Longest neighbor list handed to get_atomic_fingerprint directly.
MaxNeighbors == 2

\* ------------------------------------------------------------------------
\* Program constants
\* ------------------------------------------------------------------------

\* cutoff=6.5 (Angstrom), in tenths.
Cutoff == 65

None == "None"

\* Python's sorted() on chemical symbols: lexicographic order of the strings.
SymbolRank(s) ==
    CASE s = "C" -> 1
      [] s = "H" -> 2
      [] s = "N" -> 3
      [] OTHER   -> 4

Abs(x) == IF x < 0 THEN -x ELSE x

RECURSIVE Pow(_, _)
Pow(b, e) == IF e = 0 THEN 1 ELSE b * Pow(b, e - 1)

RECURSIVE SumSeq(_)
SumSeq(s) == IF s = << >> THEN 0 ELSE Head(s) + SumSeq(Tail(s))

Range(s) == {s[i] : i \in DOMAIN s}

\* ------------------------------------------------------------------------
\* Structures (ASE images), keyed by their hash
\* ------------------------------------------------------------------------

Ids == 1..NumIds

\* The hash string of structure number i, the key of the images dictionary.
Hash(i) == ToString(i)

Hashes == { Hash(i) : i \in Ids }

Atom(sym, pos) == [symbol |-> sym, position |-> pos]

\* The structure a hash stands for: the hash is derived from the content, so
\* one id always names the same ordered atoms.
Image(hash) ==
    CASE hash = "1" -> << Atom("H", 0) >>
      [] hash = "2" -> << Atom("O", 0), Atom("H", 10) >>
      [] OTHER      -> << Atom("O", 0) >>

\* ------------------------------------------------------------------------
\* Cutoff function and neighbor list (collaborators)
\* ------------------------------------------------------------------------

\* Cosine cutoff 0.5 (cos(pi r / Rc) + 1), zero beyond Rc; in thousandths,
\* interpolated linearly through its values at r = 0, Rc/2 and Rc.
Cosine(r, Rc) == IF r > Rc THEN 0 ELSE (1000 * (Rc - r)) \div Rc

\* Indices of the atoms of `image` within `cutoff` of atom i, i excluded, in
\* index order (no periodic images).
RECURSIVE NeighborsFrom(_, _, _, _)
NeighborsFrom(image, i, cutoff, k) ==
    IF k > Len(image) THEN << >>
    ELSE (IF k # i /\ Abs(image[k].position - image[i].position) <= cutoff
          THEN << k >> ELSE << >>) \o NeighborsFrom(image, i, cutoff, k + 1)

get_neighborlist(image, i, cutoff) == NeighborsFrom(image, i, cutoff, 1)

\* exp(-x) for x >= 0 in thousandths, in thousandths: halves every ln 2
\* (693 thousandths), interpolated linearly in between.
ExpNeg(x) ==
    LET k == IF x \div 693 > 20 THEN 20 ELSE x \div 693
        f == x % 693
    IN (1000 * (1386 - f)) \div (1386 * Pow(2, k))

\* ------------------------------------------------------------------------
\* Symmetry functions
\* ------------------------------------------------------------------------

\* One term per neighbor whose symbol equals center_symbol.
RECURSIVE G2From(_, _, _, _, _, _, _, _)
G2From(n_symbols, n_positions, center_symbol, eta, cutoff, Ri, normalized, count) ==
    IF count > Len(n_positions) THEN 0
    ELSE LET Rc  == IF normalized THEN cutoff ELSE 10
             Rij == Abs(n_positions[count] - Ri)
             t   == IF n_symbols[count] = center_symbol
                    THEN (ExpNeg((eta * Rij * Rij) \div (Rc * Rc)) * Cosine(Rij, cutoff)) \div 1000
                    ELSE 0
         IN t + G2From(n_symbols, n_positions, center_symbol, eta, cutoff, Ri,
                       normalized, count + 1)

\* As calculate_G2, counting the central atom as a neighbor of itself.
calculate_G2_with_self(n_symbols, n_positions, center_symbol, eta, cutoff, Ri, normalized) ==
    (ExpNeg(0) * Cosine(0, cutoff)) \div 1000
        + G2From(n_symbols, n_positions, center_symbol, eta, cutoff, Ri, normalized, 1)

\* As calculate_G2, with the loop starting at the second neighbor.
calculate_G2_from_second(n_symbols, n_positions, center_symbol, eta, cutoff, Ri, normalized) ==
    G2From(n_symbols, n_positions, center_symbol, eta, cutoff, Ri, normalized, 2)

calculate_G2(n_symbols, n_positions, center_symbol, eta, cutoff, Ri, normalized) ==
    G2From(n_symbols, n_positions, center_symbol, eta, cutoff, Ri, normalized, 1)

SortedPair(a, b) == IF SymbolRank(a) <= SymbolRank(b) THEN << a, b >> ELSE << b, a >>

\* The part of the angular term G3 and G4 share: (1 + gamma cos)^zeta times
\* the two cutoff factors of r_ij and r_ik.
AngularFactor(Rij_vector, Rik_vector, gamma, zeta, cutoff) ==
    LET Rij == Abs(Rij_vector)
        Rik == Abs(Rik_vector)
        cos_theta == (Rij_vector * Rik_vector) \div (Rij * Rik)
        t0 == Pow(1 + gamma * cos_theta, zeta)
        t1 == (t0 * Cosine(Rij, cutoff))
    IN (t1 * Cosine(Rik, cutoff)) \div 1000

G3Term(pj, pk, gamma, zeta, eta, cutoff, Ri) ==
    LET Rij == Abs(pj - Ri)
        Rik == Abs(pk - Ri)
        Rjk == Abs(pk - pj)
        a   == AngularFactor(pj - Ri, pk - Ri, gamma, zeta, cutoff)
        e   == ExpNeg((eta * (Rij * Rij + Rik * Rik + Rjk * Rjk)) \div (cutoff * cutoff))
    IN (((a * e) \div 1000) * Cosine(Rjk, cutoff)) \div 1000

\* As G4Term, with the cutoff factor of r_jk that G3 has.
G4TermWithRjkCutoff(pj, pk, gamma, zeta, eta, cutoff, Ri) ==
    LET Rij == Abs(pj - Ri)
        Rik == Abs(pk - Ri)
        a   == AngularFactor(pj - Ri, pk - Ri, gamma, zeta, cutoff)
        e   == ExpNeg((eta * (Rij * Rij + Rik * Rik)) \div (cutoff * cutoff))
    IN (((a * e) \div 1000) * Cosine(Abs(pk - pj), cutoff)) \div 1000

G4Term(pj, pk, gamma, zeta, eta, cutoff, Ri) ==
    LET Rij == Abs(pj - Ri)
        Rik == Abs(pk - Ri)
        a   == AngularFactor(pj - Ri, pk - Ri, gamma, zeta, cutoff)
        e   == ExpNeg((eta * (Rij * Rij + Rik * Rik)) \div (cutoff * cutoff))
    IN (a * e) \div 1000

\* The pairs (j, k), j < k, of neighbor positions, in the loops' order.
NeighborPairs(n) == { p \in (1..n) \X (1..n) : p[1] < p[2] }

RECURSIVE SumOver(_, _, _, _, _, _, _, _, _, _)
SumOver(pairs, kind, n_symbols, n_positions, G_elements, gamma, zeta, eta, cutoff, Ri) ==
    IF pairs = {} THEN 0
    ELSE LET p == CHOOSE q \in pairs : TRUE
             els == SortedPair(n_symbols[p[1]], n_symbols[p[2]])
             t == IF els # G_elements THEN 0
                  ELSE IF kind = "G3"
                       THEN G3Term(n_positions[p[1]], n_positions[p[2]], gamma, zeta, eta, cutoff, Ri)
                       ELSE G4Term(n_positions[p[1]], n_positions[p[2]], gamma, zeta, eta, cutoff, Ri)
         IN t + SumOver(pairs \ {p}, kind, n_symbols, n_positions, G_elements,
                        gamma, zeta, eta, cutoff, Ri)

\* feature *= 2 ** (1 - zeta)
calculate_G3(n_symbols, n_positions, G_elements, gamma, zeta, eta, cutoff, Ri) ==
    (2 * SumOver(NeighborPairs(Len(n_positions)), "G3", n_symbols, n_positions,
                 G_elements, gamma, zeta, eta, cutoff, Ri)) \div Pow(2, zeta)

calculate_G4(n_symbols, n_positions, G_elements, gamma, zeta, eta, cutoff, Ri) ==
    (2 * SumOver(NeighborPairs(Len(n_positions)), "G4", n_symbols, n_positions,
                 G_elements, gamma, zeta, eta, cutoff, Ri)) \div Pow(2, zeta)

\* ------------------------------------------------------------------------
\* Symmetry function table (self.GP)
\* ------------------------------------------------------------------------

RadialSpec(sym, eta) == [type |-> "G2", symbol |-> sym, eta |-> eta]

AngularSpec(type, pair, eta, gamma, zeta) ==
    [type |-> type, symbols |-> pair, eta |-> eta, gamma |-> gamma, zeta |-> zeta]

\* The lists of a list of lists, concatenated in order: what nested loops
\* that append, and nested comprehensions, build.
RECURSIVE Flatten(_)
Flatten(ss) == IF ss = << >> THEN << >> ELSE Head(ss) \o Flatten(Tail(ss))

\* As SymbolPairs, with the inner loop over all of symbols.
SymbolPairsAllOrdered(symbols) ==
    LET from(i) == [k \in 1..Len(symbols) |-> SortedPair(symbols[i], symbols[k])]
    IN Flatten([i \in 1..Len(symbols) |-> from(i)])

\* for idx1, sym1 in enumerate(symbols): for sym2 in symbols[idx1:]
SymbolPairs(symbols) ==
    LET from(i) == [k \in 1..(Len(symbols) - i + 1) |->
                        SortedPair(symbols[i], symbols[i + k - 1])]
    IN Flatten([i \in 1..Len(symbols) |-> from(i)])

\* A result of get_symmetry_functions: a list, or None for an unsupported type.
get_symmetry_functions(type, symbols, etas, zetas, gammas) ==
    IF type = "G2"
    THEN LET perEta(eta) == [i \in 1..Len(symbols) |-> RadialSpec(symbols[i], eta)]
         IN [none |-> FALSE, list |-> Flatten([e \in 1..Len(etas) |-> perEta(etas[e])])]
    ELSE IF type \in {"G3", "G4"}
    THEN LET pairs == SymbolPairs(symbols)
             perGamma(eta, zeta, gamma) ==
                 [i \in 1..Len(pairs) |-> AngularSpec(type, pairs[i], eta, gamma, zeta)]
             perZeta(eta, zeta) ==
                 Flatten([g \in 1..Len(gammas) |-> perGamma(eta, zeta, gammas[g])])
             perEta(eta) ==
                 Flatten([z \in 1..Len(zetas) |-> perZeta(eta, zetas[z])])
         IN [none |-> FALSE, list |-> Flatten([e \in 1..Len(etas) |-> perEta(etas[e])])]
    ELSE [none |-> TRUE, list |-> << >>]

\* np.logspace(np.log10(0.05), np.log10(5.0), num=4), in thousandths.
DefaultRadialEtas == << 50, 232, 1077, 5000 >>
DefaultAngularEtas == << 5 >>
DefaultZetas == << 1, 4 >>
DefaultGammas == << 1, -1 >>

\* The table GP: element -> ordered specs.  With defaults the supplied etas,
\* zetas and gammas are overwritten inside the loop; without defaults the
\* table stays empty.  status is "TypeError" when the angular list is None.
make_symmetry_functions(symbols, defaults, etas, zetas, gammas, angular_type) ==
    IF defaults
    THEN LET radial  == get_symmetry_functions("G2", symbols, DefaultRadialEtas,
                                               zetas, gammas)
             angular == get_symmetry_functions(angular_type, symbols,
                                               DefaultAngularEtas, DefaultZetas,
                                               DefaultGammas)
         IN IF Len(symbols) > 0 /\ angular.none
            THEN [status |-> "TypeError", table |-> << >>]
            ELSE [status |-> "ok",
                  table |-> [s \in Range(symbols) |-> radial.list \o angular.list]]
    ELSE [status |-> "ok", table |-> << >>]

\* ------------------------------------------------------------------------
\* Per-atom evaluation task
\* ------------------------------------------------------------------------

\* torch.tensor(v, requires_grad=True, dtype=torch.float)
ToTensor(v) == [tensor |-> TRUE, data |-> v]

\* A plain list of floats (a row of the numpy matrix).
Plain(v) == [tensor |-> FALSE, data |-> v]

SupportedTypes == {"G2", "G3", "G4"}

\* As FingerprintFrom, filling the slots of the radial specs only.
RECURSIVE FingerprintFromRadialOnly(_, _, _, _, _, _, _, _)
FingerprintFromRadialOnly(specs, count, feature, n_symbols, n_positions, cutoff, Ri, normalized) ==
    IF count > Len(specs) THEN [status |-> "ok", vec |-> << >>]
    ELSE LET GP == specs[count]
             rest == FingerprintFromRadialOnly(specs, count + 1, feature, n_symbols,
                                               n_positions, cutoff, Ri, normalized)
         IN IF GP.type = "G2"
            THEN [status |-> "ok",
                  vec |-> << calculate_G2(n_symbols, n_positions, GP.symbol, GP.eta,
                                          cutoff, Ri, normalized) >> \o rest.vec]
            ELSE rest

\* The loop over the specs of the atom's element.  `feature` is the local
\* variable: a spec of an unsupported type leaves it as the previous spec
\* set it, and unbound when no spec has set it yet.
RECURSIVE FingerprintFrom(_, _, _, _, _, _, _, _)
FingerprintFrom(specs, count, feature, n_symbols, n_positions, cutoff, Ri, normalized) ==
    IF count > Len(specs) THEN [status |-> "ok", vec |-> << >>]
    ELSE LET GP == specs[count]
             new == IF GP.type = "G2"
                    THEN [bound |-> TRUE,
                          value |-> calculate_G2(n_symbols, n_positions, GP.symbol,
                                                 GP.eta, cutoff, Ri, normalized)]
                    ELSE IF GP.type = "G3"
                    THEN [bound |-> TRUE,
                          value |-> calculate_G3(n_symbols, n_positions, GP.symbols,
                                                 GP.gamma, GP.zeta, GP.eta, cutoff, Ri)]
                    ELSE IF GP.type = "G4"
                    THEN [bound |-> TRUE,
                          value |-> calculate_G4(n_symbols, n_positions, GP.symbols,
                                                 GP.gamma, GP.zeta, GP.eta, cutoff, Ri)]
                    ELSE feature
         IN IF ~new.bound THEN [status |-> "UnboundLocalError", vec |-> << >>]
            ELSE LET rest == FingerprintFrom(specs, count + 1, new, n_symbols,
                                             n_positions, cutoff, Ri, normalized)
                 IN IF rest.status # "ok" THEN rest
                    ELSE [status |-> "ok", vec |-> << new.value >> \o rest.vec]

\* What one task returns: (symbol, tensor) without a preprocessor, the bare
\* list with one; or the exception it raises.
get_atomic_fingerprint(table, atom, symbol, n_symbols, n_positions, preprocessor) ==
    IF symbol \notin DOMAIN table
    THEN [status |-> "KeyError", symbol |-> None, features |-> Plain(<< >>)]
    ELSE LET fp == FingerprintFrom(table[symbol], 1, [bound |-> FALSE, value |-> 0],
                                   n_symbols, n_positions, Cutoff, atom.position, TRUE)
         IN IF fp.status # "ok"
            THEN [status |-> fp.status, symbol |-> None, features |-> Plain(<< >>)]
            ELSE IF preprocessor = None
            THEN [status |-> "ok", symbol |-> symbol, features |-> ToTensor(fp.vec)]
            ELSE [status |-> "ok", symbol |-> None, features |-> Plain(fp.vec)]

\* The task calculate_features builds for atom j of an image (lines 205-222).
AtomTask(table, id, j, preprocessor) ==
    LET image == Image(id)
        n_indices == get_neighborlist(image, j, Cutoff)
        n_symbols == [k \in 1..Len(n_indices) |-> image[n_indices[k]].symbol]
        n_positions == [k \in 1..Len(n_indices) |-> image[n_indices[k]].position]
    IN get_atomic_fingerprint(table, image[j], image[j].symbol, n_symbols,
                              n_positions, preprocessor)


\* ------------------------------------------------------------------------
\* Dictionaries (insertion ordered): sequences of items [key, value]
\* ------------------------------------------------------------------------

Item(k, v) == [key |-> k, value |-> v]

\* list(d.keys())
Keys(d) == [i \in 1..Len(d) |-> d[i].key]

Has(d, k) == \E i \in 1..Len(d) : d[i].key = k

\* d[k], for a key d holds
Get(d, k) == d[CHOOSE i \in 1..Len(d) : d[i].key = k].value

\* ------------------------------------------------------------------------
\* Collaborators: serialization, data handler, preprocessing
\* ------------------------------------------------------------------------

NoFile == [state |-> "absent", data |-> << >>]

CorruptFile == [state |-> "corrupt", data |-> << >>]

\* dump(obj, filename): the file holds obj.
dump(obj) == [state |-> "ok", data |-> obj]

\* load(filename): the dictionary the file holds.
load(file) == file.data

\* os.path.isfile(self.filename)
isfile(file) == file.state # "absent"

\* The chemical symbols of the atoms of the images, each once, sorted.
get_unique_element_symbols(images) ==
    LET syms == UNION { { Image(images[i])[j].symbol : j \in 1..Len(Image(images[i])) } :
                        i \in 1..Len(images) }
    IN IF syms = {"H", "O"} THEN << "H", "O" >>
       ELSE IF syms = {"H"} THEN << "H" >>
       ELSE IF syms = {"O"} THEN << "O" >>
       ELSE << >>

\* MinMaxScaler.fit: the minimum and maximum of every column of the matrix X.
ScalerFit(X) ==
    LET dim == Len(X[1])
        col(d) == { X[r][d] : r \in 1..Len(X) }
    IN [fitted |-> TRUE,
        min |-> [d \in 1..dim |-> CHOOSE m \in col(d) : \A v \in col(d) : m <= v],
        max |-> [d \in 1..dim |-> CHOOSE m \in col(d) : \A v \in col(d) : m >= v]]

NoScaler == [fitted |-> FALSE, min |-> << >>, max |-> << >>]

\* MinMaxScaler.transform with feature_range (-1, 1), in thousandths; a
\* constant column maps to the lower end.
ScaleValue(st, d, v) ==
    IF st.max[d] = st.min[d] THEN -1000
    ELSE (2000 * (v - st.min[d])) \div (st.max[d] - st.min[d]) - 1000

ScalerTransform(st, X) ==
    [r \in 1..Len(X) |-> [d \in 1..Len(X[r]) |-> ScaleValue(st, d, X[r][d])]]

\* transform raises when the scaler was never fitted or the matrix has another
\* number of columns than the one it was fitted on.
CanTransform(st, X) == st.fitted /\ \A r \in 1..Len(X) : Len(X[r]) = Len(st.min)

\* ------------------------------------------------------------------------
\* State
\* ------------------------------------------------------------------------

VARIABLES
    self,          \* the engine's configuration: overwrite, preprocessor,
                   \* defaults, filename, angular_type
    GP,            \* self.GP: [set, table]
    cacheFile,     \* the file at self.filename
    scalerFile,    \* the persisted preprocessor state
    pc,            \* "idle", "computing" (between task construction and the
                   \* barrier) or "done"
    args,          \* the arguments of the current call
    computations,  \* the tasks of the current call, in row order
    effects,       \* what the current call has done so far
    ret            \* how the current call ended

vars == << self, GP, cacheFile, scalerFile, pc, args, computations, effects, ret >>

NoEffects ==
    [loaded |-> FALSE, queried |-> FALSE, built |-> 0, evaluated |-> 0,
     fitted |-> FALSE, transformed |-> FALSE, saved |-> FALSE, dumped |-> FALSE]

NoReturn == [kind |-> "none", fs |-> << >>, rs |-> << >>, err |-> ""]

Raise(e) == [kind |-> "raise", fs |-> << >>, rs |-> << >>, err |-> e]

\* return feature_space
Return(fs) == [kind |-> "FeatureSpace", fs |-> fs, rs |-> << >>, err |-> ""]

\* return feature_space, reference_space
ReturnPair(fs, rs) == [kind |-> "pair", fs |-> fs, rs |-> rs, err |-> ""]

\* Falling off the end of the function.
ReturnNone == [kind |-> "None", fs |-> << >>, rs |-> << >>, err |-> ""]

\* Not a way the call ends: the cache block fell through.
Miss == [kind |-> "miss", fs |-> << >>, rs |-> << >>, err |-> ""]

\* ------------------------------------------------------------------------
\* calculate_features: the cache block (lines 140-162)
\* ------------------------------------------------------------------------

svm_keys == << "feature_space", "reference_space" >>

\* As CacheLookup, without the branch for ids that overlap.
CacheLookupEqualOnly(data, image_hashes) ==
    LET data_hashes == Keys(data)
    IN IF image_hashes = data_hashes
       THEN Return(data)
       ELSE IF svm_keys = data_hashes
       THEN ReturnPair(Get(data, svm_keys[1]), Get(data, svm_keys[2]))
       ELSE Miss

\* As CacheLookup, returning the whole record where ids overlap.
CacheLookupNoProjection(data, image_hashes) ==
    LET data_hashes == Keys(data)
    IN IF image_hashes = data_hashes
       THEN Return(data)
       ELSE IF \E i \in 1..Len(data_hashes) : data_hashes[i] \in Range(image_hashes)
       THEN Return(data)
       ELSE IF svm_keys = data_hashes
       THEN ReturnPair(Get(data, svm_keys[1]), Get(data, svm_keys[2]))
       ELSE Miss

CacheLookup(data, image_hashes) ==
    LET data_hashes == Keys(data)
    IN IF image_hashes = data_hashes
       THEN Return(data)
       ELSE IF \E i \in 1..Len(data_hashes) : data_hashes[i] \in Range(image_hashes)
       THEN IF \E i \in 1..Len(image_hashes) : ~Has(data, image_hashes[i])
            THEN Raise("KeyError")
            ELSE Return([i \in 1..Len(image_hashes) |->
                            Item(image_hashes[i], Get(data, image_hashes[i]))])
       ELSE IF svm_keys = data_hashes
       THEN ReturnPair(Get(data, svm_keys[1]), Get(data, svm_keys[2]))
       ELSE Miss

\* ------------------------------------------------------------------------
\* calculate_features: task construction (lines 195-222)
\* ------------------------------------------------------------------------

\* atoms_index_map: for each image the rows of its atoms, ini..end-1
\* (rows are numbered from 1 here).
RECURSIVE IndexMapFrom(_, _, _)
IndexMapFrom(images, s, ini) ==
    IF s > Len(images) THEN << >>
    ELSE LET end == ini + Len(Image(images[s]))
         IN << [k \in 1..(end - ini) |-> ini + k] >> \o IndexMapFrom(images, s + 1, end)

\* As atoms_index_map, with ini never advanced.
atoms_index_map_from_zero(images) ==
    [s \in 1..Len(images) |-> [k \in 1..Len(Image(images[s])) |-> k]]

atoms_index_map(images) == IndexMapFrom(images, 1, 0)

\* The atom each task of `computations` is for, in the order of the appends.
TaskAtoms(images) ==
    LET perImage(h) == [j \in 1..Len(Image(h)) |-> [hash |-> h, index |-> j]]
    IN Flatten([s \in 1..Len(images) |-> perImage(images[s])])

Pending == [done |-> FALSE,
            result |-> [status |-> "pending", symbol |-> None, features |-> Plain(<< >>)]]

\* ------------------------------------------------------------------------
\* calculate_features: reshaping (lines 258-290, 339-366, 379-455)
\* ------------------------------------------------------------------------

stack_features(indices, stacked_features) ==
    [k \in 1..Len(indices) |-> stacked_features[indices[k]]]

\* (hash, [(symbol, vector) for the atoms of the image]) from the image's
\* own block of scaled rows.
restack_image(index, hash, scaled_feature_space, svm) ==
    LET image == Image(hash)
    IN Item(hash,
            [j \in 1..Len(image) |->
                << image[j].symbol,
                   IF svm THEN Plain(scaled_feature_space[index][j])
                   ELSE ToTensor(scaled_feature_space[index][j]) >>])

\* As restack_atom, reading the first row of the image's block.
restack_atom_first_row(image_index, hash, atom_index, scaled_feature_space) ==
    << Image(hash)[atom_index].symbol,
       Plain(scaled_feature_space[image_index][1]) >>

\* (symbol, vector) of one atom; atom.index is its position in the image.
restack_atom(image_index, hash, atom_index, scaled_feature_space) ==
    << Image(hash)[atom_index].symbol,
       Plain(scaled_feature_space[image_index][atom_index]) >>

\* symbol.encode("utf-8")
Encode(symbol) == IF symbol = "H" THEN "b'H'" ELSE "b'O'"

\* The inference loop: `index` enumerates the atoms of each image.
InferenceEntry(hash, index, scaled_feature_space, svm) ==
    IF svm
    THEN << Encode(Image(hash)[index].symbol), Plain(scaled_feature_space[index]) >>
    ELSE << Image(hash)[index].symbol, ToTensor(scaled_feature_space[index]) >>

InferenceFeatureSpace(images, scaled_feature_space, svm) ==
    [s \in 1..Len(images) |->
        Item(images[s],
             [index \in 1..Len(Image(images[s])) |->
                 InferenceEntry(images[s], index, scaled_feature_space, svm)])]

\* ------------------------------------------------------------------------
\* calculate_features, from the call to the construction of the tasks
\* (lines 135-229).  The result says how this part ends: by returning or
\* raising (ret), or with the tasks built (ret.kind = "miss").
\* ------------------------------------------------------------------------

Prologue(images, purpose, svm, cached) ==
    LET stay(r, e) == [ret |-> r, GP |-> GP, effects |-> e, computations |-> << >>]
        loaded == [NoEffects EXCEPT !.loaded = TRUE]
        discover(e0) ==
            \* lines 166-229, with `data` the handler the caller passed
            LET e1 == IF cached THEN e0 ELSE [e0 EXCEPT !.queried = TRUE]
                made == make_symmetry_functions(
                            get_unique_element_symbols(images), self.defaults,
                            << >>, << >>, << >>, self.angular_type)
                tasks == TaskAtoms(images)
            IN IF self.defaults /\ cached
               THEN stay(Raise("UnboundLocalError"), e1)
               ELSE IF self.defaults /\ made.status # "ok"
               THEN stay(Raise(made.status), e1)
               ELSE IF ~self.defaults /\ ~GP.set
               THEN stay(Raise("AttributeError"), e1)
               ELSE [ret |-> Miss,
                     GP |-> IF self.defaults THEN [set |-> TRUE, table |-> made.table]
                            ELSE GP,
                     effects |-> [e1 EXCEPT !.built = Len(tasks)],
                     computations |-> [t \in 1..Len(tasks) |-> Pending]]
    IN IF self.filename = None
       THEN stay(Raise("TypeError"), NoEffects)
       ELSE IF isfile(cacheFile) /\ ~self.overwrite
       THEN IF cacheFile.state = "corrupt"
            THEN stay(Raise("CacheError"), loaded)
            ELSE LET hit == CacheLookup(load(cacheFile), images)
                 IN IF hit.kind = "miss"
                    \* `data` now names the loaded dictionary, which has no
                    \* attribute unique_element_symbols (line 167)
                    THEN stay(Raise("AttributeError"), loaded)
                    ELSE stay(hit, loaded)
       ELSE discover(NoEffects)

\* ------------------------------------------------------------------------
\* calculate_features after the barrier (lines 235-377), given the results
\* of all tasks in row order.
\* ------------------------------------------------------------------------

Epilogue(images, purpose, svm, results) ==
    LET stay(r, e) == [ret |-> r, cacheFile |-> cacheFile, scalerFile |-> scalerFile,
                       effects |-> e]
        e0 == [effects EXCEPT !.evaluated = Len(results)]
        stacked_features == [t \in 1..Len(results) |-> results[t].features.data]
    IN IF purpose = "training"
       THEN IF self.preprocessor = None
            \* del stacked_features (line 269) of a name never bound
            THEN stay(Raise("UnboundLocalError"), e0)
            ELSE LET st == ScalerFit(stacked_features)
                     scaled == ScalerTransform(st, stacked_features)
                     map == atoms_index_map(images)
                     scaled_feature_space ==
                         [s \in 1..Len(map) |-> stack_features(map[s], scaled)]
                     feature_space ==
                         [i \in 1..Len(images) |->
                             restack_image(i, images[i], scaled_feature_space, svm)]
                     perImage(i) ==
                         [j \in 1..Len(Image(images[i])) |->
                             restack_atom(i, images[i], j, scaled_feature_space)]
                     reference_space ==
                         Flatten([i \in 1..Len(images) |-> perImage(i)])
                     \* if self.filename is not None: dump(...)
                     e1 == [e0 EXCEPT !.fitted = TRUE, !.saved = TRUE,
                                      !.dumped = (self.filename # None)]
                 IN IF svm
                    THEN [ret |-> ReturnPair(feature_space, reference_space),
                          cacheFile |-> IF self.filename # None
                                        THEN dump(<< Item(svm_keys[1], feature_space),
                                                     Item(svm_keys[2], reference_space) >>)
                                        ELSE cacheFile,
                          scalerFile |-> st,
                          effects |-> e1]
                    ELSE [ret |-> Return(feature_space),
                          cacheFile |-> IF self.filename # None THEN dump(feature_space)
                                        ELSE cacheFile,
                          scalerFile |-> st,
                          effects |-> e1]
       ELSE IF purpose = "inference"
       THEN IF self.preprocessor = None
            \* stacked_features (line 341) was never bound
            THEN stay(Raise("UnboundLocalError"), e0)
            ELSE IF ~CanTransform(scalerFile, stacked_features)
            THEN stay(Raise("ValueError"), e0)
            ELSE stay(Return(InferenceFeatureSpace(
                                 images, ScalerTransform(scalerFile, stacked_features),
                                 svm)),
                      [e0 EXCEPT !.transformed = TRUE])
       ELSE stay(ReturnNone, e0)

\* ------------------------------------------------------------------------
\* mlchem (the earlier engine): calculate_features, lines 88-296.  It has no
\* cache block and no preprocessor object: self.scaler is the scaler's name
\* for training and the path of the saved scaler for inference.
\* ------------------------------------------------------------------------

\* save_scaler_to_file(scaler, self.save_scaler) writes this path.
ScalerPath == "mlchem.scaler"

\* lines 162-169: what self.scaler is after the scaler has been chosen.
mlchem_scaler(purpose) ==
    IF (self.scaler = "minmaxscaler" /\ purpose = "training") \/ purpose = "inference"
    THEN self.scaler
    ELSE None

\* Lines 88-194: up to the construction of the tasks.  ret is Miss when the
\* tasks have been built.
LegacyPrologue(images, purpose, svm, cached) ==
    LET made == make_symmetry_functions(get_unique_element_symbols(images), TRUE,
                                        << >>, << >>, << >>, "G3")
        table == IF self.defaults THEN [set |-> TRUE, table |-> made.table] ELSE GP
        tasks == TaskAtoms(images)
    IN IF self.defaults /\ cached
       THEN [ret |-> Raise("UnboundLocalError"), scaler |-> self.scaler, GP |-> GP,
             computations |-> << >>]
       ELSE IF purpose = "inference" /\ (self.scaler # ScalerPath \/ ~scalerFile.fitted)
       \* joblib.load of None, or of a path where no scaler was saved
       THEN [ret |-> Raise("LoadError"), scaler |-> self.scaler, GP |-> table,
             computations |-> << >>]
       ELSE [ret |-> Miss, scaler |-> mlchem_scaler(purpose), GP |-> table,
             computations |->
                 [t \in 1..Len(tasks) |->
                     [done |-> TRUE,
                      result |-> AtomTask(table.table, tasks[t].hash, tasks[t].index,
                                          mlchem_scaler(purpose))]]]

\* Lines 195-296: from dask.compute on, given the results of the tasks.
LegacyEpilogue(images, purpose, svm, results) ==
    LET out(r, cf, sf) == [ret |-> r, cacheFile |-> cf, scalerFile |-> sf]
        fail(e) == out(Raise(e), cacheFile, scalerFile)
        failed == { t \in 1..Len(results) : results[t].status # "ok" }
        stacked_features == [t \in 1..Len(results) |-> results[t].features.data]
        d1 == Len(images)
        d2 == Len(Image(images[1]))
        ragged == \E i \in 1..d1 : Len(Image(images[i])) # d2
    IN IF failed # {}
       THEN fail(results[CHOOSE t \in failed : \A u \in failed : t <= u].status)
       ELSE IF self.scaler # None /\ ragged
       \* d1, d2, d3 = stacked_features.shape
       THEN fail("ValueError")
       ELSE IF self.scaler = "minmaxscaler" /\ purpose = "training"
       THEN LET st == ScalerFit(stacked_features)
                scaled == ScalerTransform(st, stacked_features)
                scaled_feature_space ==
                    [i \in 1..d1 |-> [j \in 1..d2 |-> scaled[(i - 1) * d2 + j]]]
                feature_space ==
                    [i \in 1..d1 |-> restack_image(i, images[i], scaled_feature_space, svm)]
                perImage(i) ==
                    [j \in 1..d2 |-> restack_atom(i, images[i], j, scaled_feature_space)]
                reference_space == Flatten([i \in 1..d1 |-> perImage(i)])
            IN IF svm
               THEN out(ReturnPair(feature_space, reference_space),
                        dump(<< Item(svm_keys[1], feature_space),
                                Item(svm_keys[2], reference_space) >>),
                        st)
               ELSE out(Return(feature_space), cacheFile, st)
       ELSE IF purpose = "inference"
       THEN IF ~CanTransform(scalerFile, stacked_features)
            THEN fail("ValueError")
            ELSE out(Return(InferenceFeatureSpace(
                                images, ScalerTransform(scalerFile, stacked_features), svm)),
                     cacheFile, scalerFile)
       \* neither branch: the function ends without a return statement
       ELSE out(ReturnNone, cacheFile, scalerFile)

\* ------------------------------------------------------------------------
\* Initial states and actions
\* ------------------------------------------------------------------------

\* The requests: one to NumIds distinct hashes, in any order.
Requests ==
    { q \in UNION { [1..n -> Hashes] : n \in 1..NumIds } :
        \A i, j \in 1..Len(q) : i # j => q[i] # q[j] }

Purposes == {"training", "inference", "other"}

\* A table the caller supplies when it disables the defaults.
SuppliedTables ==
    { make_symmetry_functions(syms, TRUE, << >>, << >>, << >>, "G3").table :
        syms \in { << "H", "O" >>, << "H" >> } }

NoArgs == [images |-> << >>, purpose |-> "training", svm |-> FALSE, cached |-> FALSE]

Init ==
    /\ self \in [overwrite : BOOLEAN,
                 preprocessor : {None, "MinMaxScaler"},
                 defaults : BOOLEAN,
                 filename : {None, "fingerprints.db"},
                 angular_type : {"G3"}]
    /\ GP \in IF self.defaults THEN { [set |-> FALSE, table |-> << >>] }
              ELSE { [set |-> TRUE, table |-> t] : t \in SuppliedTables }
    /\ cacheFile \in {NoFile, CorruptFile}
    /\ scalerFile = NoScaler
    /\ pc = "idle"
    /\ args = NoArgs
    /\ computations = << >>
    /\ effects = NoEffects
    /\ ret = NoReturn

\* calculate_features(images, purpose, data, svm) up to the barrier.
Call(images, purpose, svm, cached) ==
    /\ pc = "idle"
    /\ LET p == Prologue(images, purpose, svm, cached)
       IN /\ GP' = p.GP
          /\ effects' = p.effects
          /\ computations' = p.computations
          /\ IF p.ret.kind = "miss"
             THEN pc' = "computing" /\ ret' = NoReturn
             ELSE pc' = "done" /\ ret' = p.ret
    /\ args' = [images |-> images, purpose |-> purpose, svm |-> svm, cached |-> cached]
    /\ UNCHANGED << self, cacheFile, scalerFile >>

\* A worker finishes task t.
TaskDone(t) ==
    /\ pc = "computing"
    /\ t \in 1..Len(computations)
    /\ ~computations[t].done
    /\ LET a == TaskAtoms(args.images)[t]
       IN computations' =
            [computations EXCEPT
                ![t] = [done |-> TRUE,
                        result |-> AtomTask(GP.table, a.hash, a.index, self.preprocessor)]]
    /\ UNCHANGED << self, GP, cacheFile, scalerFile, pc, args, effects, ret >>

\* As Abort, handing the caller the results of the tasks that did not raise.
AbortReturningPartial ==
    /\ pc = "computing"
    /\ \E t \in 1..Len(computations) :
          computations[t].done /\ computations[t].result.status # "ok"
    /\ ret' = Return([t \in { u \in 1..Len(computations) :
                                  computations[u].done
                                  /\ computations[u].result.status = "ok" } |->
                         computations[t].result])
    /\ pc' = "done"
    /\ UNCHANGED << self, GP, cacheFile, scalerFile, args, computations, effects >>

\* dask.compute raises what a task raised.
Abort ==
    /\ pc = "computing"
    /\ \E t \in 1..Len(computations) :
          /\ computations[t].done
          /\ computations[t].result.status # "ok"
          /\ ret' = Raise(computations[t].result.status)
    /\ pc' = "done"
    /\ UNCHANGED << self, GP, cacheFile, scalerFile, args, computations, effects >>

\* As Finish, writing the cache file whenever a FeatureSpace is returned.
FinishDumpingAlways ==
    /\ pc = "computing"
    /\ \A t \in 1..Len(computations) :
          computations[t].done /\ computations[t].result.status = "ok"
    /\ LET e == Epilogue(args.images, args.purpose, args.svm,
                         [t \in 1..Len(computations) |-> computations[t].result])
       IN /\ ret' = e.ret
          /\ cacheFile' = IF e.ret.kind = "FeatureSpace" THEN dump(e.ret.fs)
                          ELSE e.cacheFile
          /\ scalerFile' = e.scalerFile
          /\ effects' = e.effects
    /\ pc' = "done"
    /\ UNCHANGED << self, GP, args, computations >>

\* As Finish for training, fitting the preprocessor on the rows of the tasks
\* that have finished so far instead of waiting for all of them.
FinishFittingPartial ==
    /\ pc = "computing"
    /\ args.purpose = "training" /\ self.preprocessor # None
    /\ ~effects.fitted
    /\ \E t \in 1..Len(computations) :
          computations[t].done /\ computations[t].result.status = "ok"
    /\ LET finished == SelectSeq(computations,
                                 LAMBDA c : c.done /\ c.result.status = "ok")
           rows == [t \in 1..Len(finished) |-> finished[t].result.features.data]
       IN scalerFile' = ScalerFit(rows)
    /\ effects' = [effects EXCEPT !.fitted = TRUE]
    /\ UNCHANGED << self, GP, cacheFile, pc, args, computations, ret >>

\* dask.compute returns: every task has finished.
Finish ==
    /\ pc = "computing"
    /\ \A t \in 1..Len(computations) :
          computations[t].done /\ computations[t].result.status = "ok"
    /\ LET e == Epilogue(args.images, args.purpose, args.svm,
                         [t \in 1..Len(computations) |-> computations[t].result])
       IN /\ ret' = e.ret
          /\ cacheFile' = e.cacheFile
          /\ scalerFile' = e.scalerFile
          /\ effects' = e.effects
    /\ pc' = "done"
    /\ UNCHANGED << self, GP, args, computations >>

\* The caller has the outcome of the call; the engine can be called again.
Collect ==
    /\ pc = "done"
    /\ pc' = "idle"
    /\ args' = NoArgs
    /\ computations' = << >>
    /\ effects' = NoEffects
    /\ ret' = NoReturn
    /\ UNCHANGED << self, GP, cacheFile, scalerFile >>

Next ==
    \/ \E images \in Requests, purpose \in Purposes, svm \in BOOLEAN, cached \in BOOLEAN :
          Call(images, purpose, svm, cached)
    \/ \E t \in 1..Len(computations) : TaskDone(t)
    \/ Abort
    \/ Finish
    \/ Collect

Spec == Init /\ [][Next]_vars

\* ------------------------------------------------------------------------
\* The engine's methods called directly: make_symmetry_functions and
\* get_atomic_fingerprint on inputs of the caller's choice.  args records the
\* method and its arguments, ret what it returned.
\* ------------------------------------------------------------------------

ElementOrder == << "H", "O", "C", "N" >>

Elements == { ElementOrder[i] : i \in 1..NumSymbols }

\* Lists of distinct chemical symbols, in any order.
SymbolLists ==
    { q \in UNION { [1..n -> Elements] : n \in 0..NumSymbols } :
        \A i, j \in 1..Len(q) : i # j => q[i] # q[j] }

\* etas, zetas, gammas as the caller passes them: None (here << >>) or lists.
NotSupplied == [etas |-> << >>, zetas |-> << >>, gammas |-> << >>]

Supplied == [etas |-> << 100 >>, zetas |-> << 2 >>, gammas |-> << 1 >>]

AngularTypes == {"G3", "G4", "G5"}

\* A spec of a type the engine has no evaluator for.
UnsupportedSpec ==
    [type |-> "G5", symbols |-> << "H", "H" >>, eta |-> 5, gamma |-> 1, zeta |-> 1]

\* The tables an engine can hold: built by make_symmetry_functions, or
\* assigned to self.GP by the caller.
UnitTables ==
    { make_symmetry_functions(<< "H", "O" >>, TRUE, << >>, << >>, << >>, t).table :
        t \in {"G3", "G4"} }
    \cup { [s \in {"H", "O"} |->
                << RadialSpec("H", 1077), UnsupportedSpec, RadialSpec("O", 50) >>],
           [s \in {"H", "O"} |-> << UnsupportedSpec, RadialSpec("H", 1077) >>] }

\* Neighbors of an atom at the origin: (symbol, position) in list order.
NeighborPositions == { -10, 10, 25 }

NeighborLists ==
    UNION { [1..n -> {"H", "O"} \X NeighborPositions] : n \in 0..MaxNeighbors }

UnitInit ==
    /\ self = [defaults |-> FALSE, filename |-> "fingerprints.db"]
    /\ GP \in { [set |-> TRUE, table |-> t] : t \in UnitTables }
    /\ cacheFile = NoFile
    /\ scalerFile = NoScaler
    /\ pc = "idle"
    /\ args = NoArgs
    /\ computations = << >>
    /\ effects = NoEffects
    /\ ret = NoReturn

\* GP = engine.make_symmetry_functions(symbols, defaults, etas=..., ...)
MakeTable(symbols, defaults, given, angular_type) ==
    /\ pc = "idle"
    /\ args' = [method |-> "make_symmetry_functions", symbols |-> symbols,
                defaults |-> defaults, given |-> given,
                angular_type |-> angular_type]
    /\ ret' = make_symmetry_functions(symbols, defaults, given.etas, given.zetas,
                                      given.gammas, angular_type)
    /\ pc' = "done"
    /\ UNCHANGED << self, GP, cacheFile, scalerFile, computations, effects >>

\* engine.get_atomic_fingerprint(atom, index, symbol, n_symbols,
\* neighborpositions, preprocessor), evaluated, for an atom at the origin.
Fingerprint(symbol, neighbors, preprocessor) ==
    /\ pc = "idle"
    /\ LET n_symbols == [k \in 1..Len(neighbors) |-> neighbors[k][1]]
           n_positions == [k \in 1..Len(neighbors) |-> neighbors[k][2]]
       IN /\ args' = [method |-> "get_atomic_fingerprint", symbol |-> symbol,
                      n_symbols |-> n_symbols, n_positions |-> n_positions,
                      preprocessor |-> preprocessor]
          /\ ret' = get_atomic_fingerprint(GP.table, Atom(symbol, 0), symbol,
                                           n_symbols, n_positions, preprocessor)
    /\ pc' = "done"
    /\ UNCHANGED << self, GP, cacheFile, scalerFile, computations, effects >>

UnitNext ==
    \/ \E symbols \in SymbolLists, defaults \in BOOLEAN,
          given \in {NotSupplied, Supplied}, angular_type \in AngularTypes :
          MakeTable(symbols, defaults, given, angular_type)
    \/ \E symbol \in {"H", "O"}, neighbors \in NeighborLists,
          preprocessor \in {None, "MinMaxScaler"} :
          Fingerprint(symbol, neighbors, preprocessor)
    \/ Collect

UnitSpec == UnitInit /\ [][UnitNext]_vars

\* ------------------------------------------------------------------------
\* The earlier engine (mlchem) and its calls
\* ------------------------------------------------------------------------

\* scaler as given to the constructor, lowercased there.
LegacyScalers == {None, "minmaxscaler", "standardscaler", ScalerPath}

LegacyInit ==
    /\ self \in [scaler : LegacyScalers, defaults : BOOLEAN,
                  filename : {"fingerprints.db"}]
    /\ GP \in IF self.defaults THEN { [set |-> FALSE, table |-> << >>] }
              ELSE { [set |-> TRUE, table |-> t] : t \in SuppliedTables }
    /\ cacheFile = NoFile
    /\ scalerFile = NoScaler
    /\ pc = "idle"
    /\ args = NoArgs
    /\ computations = << >>
    /\ effects = NoEffects
    /\ ret = NoReturn

\* calculate_features(images, purpose, data, svm) of the earlier engine, up to
\* dask.compute.  args also records the scaler the engine had when called.
LegacyCall(images, purpose, svm, cached) ==
    /\ pc = "idle"
    /\ self.defaults \/ GP.set
    /\ LET p == LegacyPrologue(images, purpose, svm, cached)
       IN /\ self' = [self EXCEPT !.scaler = p.scaler]
          /\ GP' = p.GP
          /\ computations' = p.computations
          /\ IF p.ret.kind = "miss"
             THEN pc' = "computing" /\ ret' = NoReturn
             ELSE pc' = "done" /\ ret' = p.ret
    /\ args' = [images |-> images, purpose |-> purpose, svm |-> svm, cached |-> cached,
                scaler |-> self.scaler]
    /\ UNCHANGED << cacheFile, scalerFile, effects >>

\* dask.compute and what follows it.
LegacyFinish ==
    /\ pc = "computing"
    /\ LET e == LegacyEpilogue(args.images, args.purpose, args.svm,
                               [t \in 1..Len(computations) |-> computations[t].result])
       IN /\ ret' = e.ret
          /\ cacheFile' = e.cacheFile
          /\ scalerFile' = e.scalerFile
    /\ effects' = [effects EXCEPT !.evaluated = Len(computations)]
    /\ pc' = "done"
    /\ UNCHANGED << self, GP, args, computations >>

\* The inference engine is constructed with the path of the saved scaler, the
\* training engine with a scaler's name.
Reconfigure(scaler) ==
    /\ pc = "idle"
    /\ self' = [self EXCEPT !.scaler = scaler]
    /\ UNCHANGED << GP, cacheFile, scalerFile, pc, args, computations, effects, ret >>

LegacyNext ==
    \/ \E images \in Requests, purpose \in Purposes, svm \in BOOLEAN, cached \in BOOLEAN :
          LegacyCall(images, purpose, svm, cached)
    \/ LegacyFinish
    \/ \E scaler \in LegacyScalers : Reconfigure(scaler)
    \/ Collect

LegacySpec == LegacyInit /\ [][LegacyNext]_vars

\* ------------------------------------------------------------------------
\* Vocabulary of the properties
\* ------------------------------------------------------------------------

Done == pc = "done"

Requested == Range(args.images)

\* The number of atoms of the request.
NumAtoms == SumSeq([s \in 1..Len(args.images) |-> Len(Image(args.images[s]))])

\* The number of atoms of the structures before structure s of the request.
AtomsBefore(s) == SumSeq([k \in 1..(s - 1) |-> Len(Image(args.images[k]))])

Returned == ret.kind \in {"FeatureSpace", "pair"}

\* The call found a readable file at self.filename and was to consult it.  No
\* path through the cache block writes the file, so a call that has dumped
\* nothing still sees the file as it found it.
FoundCache ==
    /\ Done
    /\ self.filename # None
    /\ ~self.overwrite
    /\ cacheFile.state = "ok"
    /\ ~effects.dumped

\* The record found is in the per-structure shape.
FoundPerStructure == FoundCache /\ Keys(cacheFile.data) # svm_keys

CachedIds == Range(Keys(cacheFile.data))

\* The raw matrix of the call: row t is what task t returned.
RawRows == [t \in 1..Len(computations) |-> computations[t].result.features.data]

\* A task of the current call has raised.
TaskRaised ==
    \E t \in 1..Len(computations) :
        computations[t].done /\ computations[t].result.status # "ok"

\* The step changes what the file at self.filename holds.
CacheFileChanges ==
    \/ cacheFile'.state # cacheFile.state
    \/ Keys(cacheFile'.data) # Keys(cacheFile.data)
    \/ cacheFile'.data # cacheFile.data

\* Method m of the engine has been called directly and has ended.
Called(m) == pc = "done" /\ args.method = m

\* The value one spec alone has for the atom of the direct call.
SpecValue(spec) ==
    IF spec.type = "G2"
    THEN calculate_G2(args.n_symbols, args.n_positions, spec.symbol, spec.eta, Cutoff, 0, TRUE)
    ELSE IF spec.type = "G3"
    THEN calculate_G3(args.n_symbols, args.n_positions, spec.symbols, spec.gamma, spec.zeta,
                      spec.eta, Cutoff, 0)
    ELSE calculate_G4(args.n_symbols, args.n_positions, spec.symbols, spec.gamma, spec.zeta,
                      spec.eta, Cutoff, 0)

\* The value one spec has for an atom at the origin with the given neighbors.
SpecValueOn(spec, n_symbols, n_positions) ==
    IF spec.type = "G2"
    THEN calculate_G2(n_symbols, n_positions, spec.symbol, spec.eta, Cutoff, 0, TRUE)
    ELSE IF spec.type = "G3"
    THEN calculate_G3(n_symbols, n_positions, spec.symbols, spec.gamma, spec.zeta,
                      spec.eta, Cutoff, 0)
    ELSE calculate_G4(n_symbols, n_positions, spec.symbols, spec.gamma, spec.zeta,
                      spec.eta, Cutoff, 0)

\* Every spec registered for the element of the direct call has an evaluator.
AllSupported == \A c \in 1..Len(GP.table[args.symbol]) :
                    GP.table[args.symbol][c].type \in SupportedTypes

\* The sum of the values of a function over a set of its arguments.
RECURSIVE SumFn(_, _)
SumFn(f, S) ==
    IF S = {} THEN 0
    ELSE LET x == CHOOSE y \in S : TRUE IN f[x] + SumFn(f, S \ {x})

\* The angular term of neighbors j and k of the direct call, for an atom at
\* the origin: (1 + gamma cos)^zeta, the Gaussian of r_ij and r_ik, and the
\* cutoff factors of r_ij and r_ik; with r_jk in the Gaussian and the cutoff
\* factor of r_jk exactly when with_jk.
PairTerm(j, k, spec, with_jk) ==
    LET pj == args.n_positions[j]
        pk == args.n_positions[k]
        cos_theta == IF (pj > 0) = (pk > 0) THEN 1 ELSE -1
        angle == Pow(1 + spec.gamma * cos_theta, spec.zeta)
        cut == (angle * Cosine(Abs(pj), Cutoff) * Cosine(Abs(pk), Cutoff)) \div 1000
        r2 == pj * pj + pk * pk + (IF with_jk THEN (pk - pj) * (pk - pj) ELSE 0)
        gauss == ExpNeg((spec.eta * r2) \div (Cutoff * Cutoff))
        term == (cut * gauss) \div 1000
    IN IF with_jk THEN (term * Cosine(Abs(pk - pj), Cutoff)) \div 1000 ELSE term

\* The sum of PairTerm over the neighbor pairs j < k of the direct call whose
\* elements are the spec's pair, times 2^(1 - zeta).
PairSum(spec, with_jk) ==
    LET n == Len(args.n_symbols)
        pairs == { q \in (1..n) \X (1..n) :
                      /\ q[1] < q[2]
                      /\ {args.n_symbols[q[1]], args.n_symbols[q[2]]}
                             = {spec.symbols[1], spec.symbols[2]} }
    IN (2 * SumFn([q \in pairs |-> PairTerm(q[1], q[2], spec, with_jk)], pairs))
           \div Pow(2, spec.zeta)

\* The positions of list l that hold x.
Positions(l, x) == { c \in 1..Len(l) : l[c] = x }

\* The specs registered for the element of the direct call.
SpecsOfCall == GP.table[args.symbol]

\* ------------------------------------------------------------------------
\* Properties
\* ------------------------------------------------------------------------

\* C1: an inference call over two or more structures returns, at entry j of
\* structure s, the element of atom j of s and the transformed matrix row
\* AtomsBefore(s) + j, the row computed for that atom.
C1_InferenceRowOfSameAtom ==
    (Done /\ args.purpose = "inference" /\ Len(args.images) >= 2
          /\ ret.kind = "FeatureSpace" /\ effects.transformed)
    => LET scaled == ScalerTransform(scalerFile, RawRows)
       IN \A s \in 1..Len(args.images) :
            \A j \in 1..Len(Image(args.images[s])) :
               LET entry == ret.fs[s].value[j]
                   symbol == Image(args.images[s])[j].symbol
               IN /\ ret.fs[s].key = args.images[s]
                  /\ entry[1] \in {symbol, Encode(symbol)}
                  /\ entry[2].data = scaled[AtomsBefore(s) + j]

\* C2: a training call with a preprocessor returns the structures in input
\* order, entry j of structure s being the element of atom j and the scaled
\* row AtomsBefore(s) + j of the stacked matrix.
C2_TrainingRestack ==
    (Done /\ args.purpose = "training" /\ self.preprocessor # None
          /\ effects.fitted /\ Returned)
    => LET scaled == ScalerTransform(ScalerFit(RawRows), RawRows)
       IN /\ Keys(ret.fs) = args.images
          /\ \A s \in 1..Len(args.images) :
               /\ Len(ret.fs[s].value) = Len(Image(args.images[s]))
               /\ \A j \in 1..Len(Image(args.images[s])) :
                    LET entry == ret.fs[s].value[j]
                    IN /\ entry[1] = Image(args.images[s])[j].symbol
                       /\ entry[2].data = scaled[AtomsBefore(s) + j]

\* A training call has returned computed features for two structures of
\* different atom counts, the second starting at a row other than the first.
C2_Witness ==
    /\ Done /\ args.purpose = "training" /\ self.preprocessor # None
    /\ effects.fitted /\ Returned
    /\ Len(args.images) = 2
    /\ Len(Image(args.images[1])) # Len(Image(args.images[2]))
    /\ Len(Image(args.images[2])) = 2

\* C3: a request that shares an id with the cached record and has an id the
\* record does not hold completes with a result for every requested id, the
\* tasks of the request having been built.
C3_PartialOverlapRecomputes ==
    (FoundPerStructure /\ Requested \cap CachedIds # {}
                       /\ Requested \ CachedIds # {})
    => /\ Returned
       /\ Range(Keys(ret.fs)) = Requested
       /\ effects.built = NumAtoms

\* C4: a request with no id in common with the cached per-structure record
\* falls through to recomputation and returns features for the whole request.
C4_DisjointFallsThrough ==
    (FoundPerStructure /\ Requested \cap CachedIds = {})
    => /\ Returned
       /\ Range(Keys(ret.fs)) = Requested
       /\ effects.built = NumAtoms

\* C5: when the requested ids are, as a set, the cached ids, the call returns
\* the cached entry of every requested id and nothing else, builds no task,
\* fits no preprocessor and writes nothing.
C5_SetEqualHit ==
    (FoundPerStructure /\ Requested = CachedIds)
    => /\ ret.kind = "FeatureSpace"
       /\ Len(ret.fs) = Len(args.images)
       /\ Range(Keys(ret.fs)) = Requested
       /\ \A h \in Requested : Get(ret.fs, h) = Get(cacheFile.data, h)
       /\ effects.built = 0 /\ effects.evaluated = 0
       /\ ~effects.fitted /\ ~effects.transformed
       /\ ~effects.saved /\ ~effects.dumped

\* The requested ids are the cached ids in another order.
C5_Witness ==
    /\ FoundPerStructure /\ Requested = CachedIds
    /\ args.images # Keys(cacheFile.data)
    /\ ret.kind = "FeatureSpace"

\* C6: when the requested ids are a non-empty proper subset of the cached
\* ids, the call returns a mapping whose keys are the requested ids, each with
\* its cached entry, and builds no task.
C6_SubsetProjection ==
    (FoundPerStructure /\ Requested # {} /\ Requested \subseteq CachedIds
                       /\ Requested # CachedIds)
    => /\ ret.kind = "FeatureSpace"
       /\ Keys(ret.fs) = args.images
       /\ \A h \in Requested : Get(ret.fs, h) = Get(cacheFile.data, h)
       /\ effects.built = 0 /\ effects.evaluated = 0

\* A request for one of two cached ids has been answered.
C6_Witness ==
    /\ FoundPerStructure /\ Requested # {} /\ Requested \subseteq CachedIds
    /\ Requested # CachedIds
    /\ Len(ret.fs) = 1

\* C7: the pair of a kernel-method cache file is returned only to a call that
\* asked for the kernel-method shape.
C7_PairOnlyForSvm ==
    (Done /\ effects.loaded /\ ret.kind = "pair") => args.svm

\* C8: with overwrite true and a cache path set, a call never loads the cache
\* file and builds and evaluates one task per requested atom.
C8_OverwriteAlwaysComputes ==
    (Done /\ self.overwrite /\ self.filename # None)
    => /\ ~effects.loaded
       /\ effects.built = NumAtoms
       /\ effects.evaluated = NumAtoms

\* C9: a call that finds a corrupt cache file returns the recomputed result
\* for the whole request.
C9_CorruptCacheIsMiss ==
    (Done /\ self.filename # None /\ ~self.overwrite /\ cacheFile.state = "corrupt")
    => /\ Returned
       /\ Range(Keys(ret.fs)) = Requested
       /\ effects.built = NumAtoms

\* C10: without a preprocessor, a training call whose tasks have all been
\* evaluated returns every structure id with the (element, raw vector) of its
\* atoms in order.
C10_TrainingWithoutPreprocessor ==
    (Done /\ self.preprocessor = None /\ args.purpose = "training"
          /\ effects.evaluated = NumAtoms /\ NumAtoms > 0)
    => /\ ret.kind = "FeatureSpace"
       /\ Keys(ret.fs) = args.images
       /\ \A s \in 1..Len(args.images) :
            \A j \in 1..Len(Image(args.images[s])) :
               /\ ret.fs[s].value[j][1] = Image(args.images[s])[j].symbol
               /\ ret.fs[s].value[j][2].data = RawRows[AtomsBefore(s) + j]

\* C11: get_atomic_fingerprint for an element whose specs include one of a
\* type other than G2, G3 and G4 ends with an error, and returns no vector.
C11_UnsupportedTypeAborts ==
    (Called("get_atomic_fingerprint")
       /\ \E c \in 1..Len(SpecsOfCall) : SpecsOfCall[c].type \notin SupportedTypes)
    => ret.status # "ok"

\* C12: a call with a purpose other than 'training' and 'inference' ends by
\* raising, and writes neither the cache file nor the preprocessor file.
C12_UnknownPurposeAborts ==
    (Done /\ args.purpose \notin {"training", "inference"})
    => /\ ret.kind = "raise"
       /\ ~effects.dumped
       /\ ~effects.saved

\* C13: a training call of an engine configured with an unsupported scaler
\* name, all of whose tasks were evaluated, returns a FeatureSpace that holds,
\* for every requested structure in order, the element and the raw vector of
\* each of its atoms.
C13_UnsupportedScalerProceedsUnscaled ==
    (Done /\ args.purpose = "training"
          /\ args.scaler \notin {None, "minmaxscaler"}
          /\ effects.evaluated = NumAtoms
          /\ \A t \in 1..Len(computations) : computations[t].result.status = "ok")
    => /\ ret.kind = "FeatureSpace"
       /\ Keys(ret.fs) = args.images
       /\ \A s \in 1..Len(args.images) :
            \A j \in 1..Len(Image(args.images[s])) :
               /\ ret.fs[s].value[j][1] = Image(args.images[s])[j].symbol
               /\ ret.fs[s].value[j][2].data = RawRows[AtomsBefore(s) + j]

\* C14: once a task of a call has raised, the call can end only by raising,
\* and the step that ends it leaves the cache file and the saved preprocessor
\* state as they were.
C14_TaskFailureAborts ==
    [][(pc = "computing" /\ TaskRaised /\ pc' = "done")
         => /\ ret'.kind = "raise"
            /\ ret'.err \in { computations[t].result.status : t \in 1..Len(computations) }
            /\ cacheFile' = cacheFile
            /\ scalerFile' = scalerFile]_vars

\* A call has ended by raising after one of its tasks raised and another
\* returned a vector.
C14_Witness ==
    /\ Done /\ TaskRaised /\ ret.kind = "raise"
    /\ \E t \in 1..Len(computations) :
          computations[t].done /\ computations[t].result.status = "ok"

\* C15: a step writes the cache file only as the last step of a training call
\* with a cache path set, when every task has been evaluated, and what it
\* writes is the result the call returns; no step of an inference call writes.
C15_CacheWrittenOnlyByTraining ==
    [][(CacheFileChanges \/ (effects'.dumped /\ ~effects.dumped))
         => /\ args.purpose = "training"
            /\ self.filename # None
            /\ pc = "computing" /\ pc' = "done"
            /\ \A t \in 1..Len(computations) :
                  computations[t].done /\ computations[t].result.status = "ok"
            /\ ret'.kind = IF args.svm THEN "pair" ELSE "FeatureSpace"
            /\ Keys(ret'.fs) = args.images
            /\ cacheFile' = dump(IF args.svm
                                 THEN << Item(svm_keys[1], ret'.fs),
                                         Item(svm_keys[2], ret'.rs) >>
                                 ELSE ret'.fs)]_vars

\* An inference call has computed and returned its features while the cache
\* file an earlier training call wrote is in place.
C15_Witness ==
    /\ Done /\ args.purpose = "inference" /\ effects.transformed
    /\ ret.kind = "FeatureSpace"
    /\ cacheFile.state = "ok"

\* C16: under a table whose specs are all of type G2, G3 or G4,
\* get_atomic_fingerprint for an atom of element E returns a vector with one
\* slot per spec registered for E, slot c holding the value of spec c.
C16_LengthIsNumberOfSpecs ==
    (Called("get_atomic_fingerprint")
       /\ \A c \in 1..Len(SpecsOfCall) : SpecsOfCall[c].type \in SupportedTypes)
    => /\ ret.status = "ok"
       /\ Len(ret.features.data) = Len(SpecsOfCall)
       /\ \A c \in 1..Len(SpecsOfCall) :
             ret.features.data[c] = SpecValue(SpecsOfCall[c])

\* An atom with two neighbors of different elements has been evaluated under
\* a table of radial and angular specs, and an angular slot is not zero.
C16_Witness ==
    /\ Called("get_atomic_fingerprint")
    /\ \A c \in 1..Len(SpecsOfCall) : SpecsOfCall[c].type \in SupportedTypes
    /\ Len(args.n_symbols) = 2 /\ args.n_symbols[1] # args.n_symbols[2]
    /\ ret.status = "ok"
    /\ \E c \in 1..Len(SpecsOfCall) :
          SpecsOfCall[c].type # "G2" /\ ret.features.data[c] # 0

\* C17: for n distinct symbols, make_symmetry_functions with defaults and an
\* angular type of G3 or G4 registers one and the same list for every symbol:
\* first 4n radial specs, one per default eta and element, then 4n(n+1)/2
\* angular specs of the configured type, one per default zeta, gamma and
\* unordered pair of elements, each pair stored sorted.
C17_DefaultTable ==
    (Called("make_symmetry_functions") /\ args.defaults
                                       /\ args.angular_type \in {"G3", "G4"})
    => LET n == Len(args.symbols)
           t == ret.table
       IN /\ ret.status = "ok"
          /\ DOMAIN t = Range(args.symbols)
          /\ \A E \in DOMAIN t :
               LET radial == SubSeq(t[E], 1, 4 * n)
                   angular == SubSeq(t[E], 4 * n + 1, Len(t[E]))
               IN /\ t[E] = t[args.symbols[1]]
                  /\ Len(t[E]) = 4 * n + (4 * n * (n + 1)) \div 2
                  /\ \A e \in 1..Len(DefaultRadialEtas), X \in Range(args.symbols) :
                        Cardinality(Positions(radial,
                                              RadialSpec(X, DefaultRadialEtas[e]))) = 1
                  /\ \A z \in 1..Len(DefaultZetas), g \in 1..Len(DefaultGammas),
                        X \in Range(args.symbols), Y \in Range(args.symbols) :
                        Cardinality(Positions(angular,
                            AngularSpec(args.angular_type, SortedPair(X, Y),
                                        DefaultAngularEtas[1], DefaultGammas[g],
                                        DefaultZetas[z]))) = 1

\* The default table of two or more elements with G4 angular specs has been
\* built.
C17_Witness ==
    /\ Called("make_symmetry_functions") /\ args.defaults
    /\ args.angular_type = "G4"
    /\ Len(args.symbols) >= 2
    /\ ret.status = "ok"
    /\ Len(ret.table[args.symbols[1]]) > 4 * Len(args.symbols)

\* C18: make_symmetry_functions returns, for the same configuration, the same
\* table for every order in which the same set of symbols is presented.
C18_TableIndependentOfOrder ==
    Called("make_symmetry_functions")
    => \A q \in SymbolLists :
          Range(q) = Range(args.symbols)
          => make_symmetry_functions(q, args.defaults, args.given.etas,
                                     args.given.zetas, args.given.gammas,
                                     args.angular_type) = ret

\* C19: make_symmetry_functions called for some symbols with etas, zetas and
\* gammas supplied returns a table that is not empty and whose specs carry
\* supplied values only.
C19_SuppliedValuesOverride ==
    (Called("make_symmetry_functions") /\ args.given = Supplied
                                       /\ args.symbols # << >>
                                       /\ args.angular_type \in {"G3", "G4"})
    => /\ ret.status = "ok"
       /\ DOMAIN ret.table # {}
       /\ \A E \in DOMAIN ret.table :
            \A c \in 1..Len(ret.table[E]) :
               LET spec == ret.table[E][c]
               IN /\ spec.eta \in Range(args.given.etas)
                  /\ spec.type # "G2" => /\ spec.zeta \in Range(args.given.zetas)
                                         /\ spec.gamma \in Range(args.given.gammas)

\* C20: the ReferenceSpace a kernel-method training call returns is the
\* concatenation, in structure order then atom order, of the entry lists of
\* the FeatureSpace it returns; cut by the structures' atom counts it gives
\* back the entry list of each structure.
C20_ReferenceSpaceIsFlattened ==
    (Done /\ args.purpose = "training" /\ args.svm /\ ret.kind = "pair")
    => LET lists == [s \in 1..Len(ret.fs) |-> ret.fs[s].value]
           before(s) == SumSeq([k \in 1..(s - 1) |-> Len(lists[k])])
       IN /\ ret.rs = Flatten(lists)
          /\ Len(ret.rs) = SumSeq([s \in 1..Len(lists) |-> Len(lists[s])])
          /\ \A s \in 1..Len(lists) :
                SubSeq(ret.rs, before(s) + 1, before(s) + Len(lists[s])) = lists[s]

\* A kernel-method training call has computed and returned the pair for two
\* structures, the second of two atoms with different vectors.
C20_Witness ==
    /\ Done /\ args.purpose = "training" /\ args.svm /\ ret.kind = "pair"
    /\ effects.fitted
    /\ Len(args.images) = 2
    /\ Len(ret.fs[2].value) = 2
    /\ ret.fs[2].value[1][2] # ret.fs[2].value[2][2]

\* C21: the value of every G2, G3 and G4 spec is the same for every
\* permutation of the neighbor list, symbols and positions permuted together.
C21_PermutationInvariant ==
    (Called("get_atomic_fingerprint") /\ AllSupported)
    => \A p \in Permutations(1..Len(args.n_symbols)) :
          LET n_symbols == [k \in 1..Len(args.n_symbols) |-> args.n_symbols[p[k]]]
              n_positions == [k \in 1..Len(args.n_symbols) |-> args.n_positions[p[k]]]
          IN \A c \in 1..Len(SpecsOfCall) :
                SpecValueOn(SpecsOfCall[c], n_symbols, n_positions)
                    = ret.features.data[c]

\* An atom with two neighbors of different elements at different distances
\* has been evaluated, with a radial and an angular slot that are not zero.
C21_Witness ==
    /\ Called("get_atomic_fingerprint") /\ AllSupported
    /\ Len(args.n_symbols) >= 2
    /\ args.n_symbols[1] # args.n_symbols[2]
    /\ Abs(args.n_positions[1]) # Abs(args.n_positions[2])
    /\ \E c \in 1..Len(SpecsOfCall) :
          SpecsOfCall[c].type = "G2" /\ ret.features.data[c] # 0
    /\ \E c \in 1..Len(SpecsOfCall) :
          SpecsOfCall[c].type # "G2" /\ ret.features.data[c] # 0

\* C22: for the same neighbors and parameters calculate_G3 and calculate_G4
\* sum over the same neighbor pairs with the same angular factor, the same
\* cutoff factors of r_ij and r_ik and the same 2^(1 - zeta) scaling; G3's
\* term has r_jk^2 in the exponent and the cutoff factor of r_jk, G4's has
\* neither.
C22_G4IsG3WithoutRjk ==
    (Called("get_atomic_fingerprint") /\ AllSupported)
    => \A c \in 1..Len(SpecsOfCall) :
          LET spec == SpecsOfCall[c]
          IN spec.type # "G2"
             => /\ calculate_G3(args.n_symbols, args.n_positions, spec.symbols,
                                spec.gamma, spec.zeta, spec.eta, Cutoff, 0)
                      = PairSum(spec, TRUE)
                /\ calculate_G4(args.n_symbols, args.n_positions, spec.symbols,
                                spec.gamma, spec.zeta, spec.eta, Cutoff, 0)
                      = PairSum(spec, FALSE)
                /\ ret.features.data[c] = PairSum(spec, spec.type = "G3")

\* An atom has been evaluated under G4 specs with two neighbors apart from
\* each other, and a slot holds a value other than G3 has for the same spec.
C22_Witness ==
    /\ Called("get_atomic_fingerprint") /\ AllSupported
    /\ Len(args.n_symbols) = 2
    /\ args.n_positions[1] # args.n_positions[2]
    /\ \E c \in 1..Len(SpecsOfCall) :
          /\ SpecsOfCall[c].type = "G4"
          /\ ret.features.data[c] # 0
          /\ ret.features.data[c] # PairSum(SpecsOfCall[c], TRUE)

\* C23: for an atom with an empty neighbor list, under specs of type G2, G3
\* and G4, get_atomic_fingerprint returns a vector with one slot per spec,
\* every slot zero.
C23_NoNeighborsAllZero ==
    (Called("get_atomic_fingerprint") /\ AllSupported /\ args.n_symbols = << >>)
    => /\ ret.status = "ok"
       /\ Len(ret.features.data) = Len(SpecsOfCall)
       /\ \A c \in 1..Len(ret.features.data) : ret.features.data[c] = 0

\* An atom without neighbors has been evaluated under radial and angular
\* specs.
C23_Witness ==
    /\ Called("get_atomic_fingerprint") /\ AllSupported /\ args.n_symbols = << >>
    /\ ret.status = "ok"
    /\ \E c \in 1..Len(SpecsOfCall) : SpecsOfCall[c].type = "G2"
    /\ \E c \in 1..Len(SpecsOfCall) : SpecsOfCall[c].type = "G4"

\* C24: whatever the order in which the tasks of a call completed, the
\* result of task t is the raw vector of atom t (its matrix row), and the
\* returned FeatureSpace holds, at entry j of structure s, the preprocessed
\* row AtomsBefore(s) + j: the vector produced by the task of that atom.
C24_IndependentOfCompletionOrder ==
    (Done /\ Returned /\ (effects.fitted \/ effects.transformed))
    => LET scaled == ScalerTransform(scalerFile, RawRows)
           tasks == TaskAtoms(args.images)
       IN /\ Len(computations) = NumAtoms
          /\ \A t \in 1..Len(computations) :
                computations[t].result =
                    AtomTask(GP.table, tasks[t].hash, tasks[t].index, self.preprocessor)
          /\ \A s \in 1..Len(args.images) :
                \A j \in 1..Len(Image(args.images[s])) :
                    ret.fs[s].value[j][2].data = scaled[AtomsBefore(s) + j]

\* C25: the step of a call in which the preprocessor is fitted (training) or
\* applied (inference) is taken only when every per-atom task of the call
\* has completed, it works on the matrix of all NumAtoms rows - a training
\* call leaves the scaler fitted on exactly those rows - and it ends the
\* call, so that it happens once.
C25_PreprocessAfterBarrier ==
    [][((effects'.fitted /\ ~effects.fitted)
            \/ (effects'.transformed /\ ~effects.transformed))
       => /\ pc = "computing" /\ pc' = "done"
          /\ Len(computations) = NumAtoms
          /\ \A t \in 1..Len(computations) :
                computations[t].done /\ computations[t].result.status = "ok"
          /\ effects'.evaluated = NumAtoms
          /\ effects'.fitted => scalerFile' = ScalerFit(RawRows)
          /\ effects'.transformed =>
                /\ scalerFile' = scalerFile
                /\ \A s \in 1..Len(ret'.fs) : \A j \in 1..Len(ret'.fs[s].value) :
                      ret'.fs[s].value[j][2].data
                          \in Range(ScalerTransform(scalerFile, RawRows))
      ]_vars

\* An inference call over two structures of three atoms in all has applied
\* the fitted preprocessor and returned.
C25_Witness ==
    /\ Done /\ effects.transformed /\ Returned
    /\ Len(args.images) = 2 /\ NumAtoms = 3

\* C26: with default generation enabled, a call that goes past the cache
\* block builds the table of symmetry functions from the unique elements of
\* its structures and goes on to build its tasks, whether or not the data
\* handler had its unique elements cached before the call.
C26_TableBuiltWhetherHandlerCached ==
    (Done /\ self.defaults /\ self.filename # None /\ ~effects.loaded)
    => /\ GP.set
       /\ GP.table = make_symmetry_functions(get_unique_element_symbols(args.images),
                                             TRUE, << >>, << >>, << >>,
                                             self.angular_type).table
       /\ effects.built = NumAtoms

\* C27: once a training call has established the table of symmetry functions
\* (the table is set and the preprocessor fitted), the start of an inference
\* call leaves the table as it was.
C27_InferenceLeavesTable ==
    [][(pc = "idle" /\ pc' # "idle" /\ args'.purpose = "inference"
            /\ GP.set /\ scalerFile.fitted)
       => GP' = GP]_vars

\* C28: a call that found a cache file of the kernel-method shape and
\* returned the cached pair requested only structure ids that the cached
\* FeatureSpace holds.
C28_PairOnlyIfIdsCovered ==
    (FoundCache /\ Keys(cacheFile.data) = svm_keys /\ effects.loaded
                /\ ret.kind = "pair")
    => Requested \subseteq Range(Keys(Get(cacheFile.data, svm_keys[1])))

\* C29: with no cache path, a call neither loads nor dumps a cache file and
\* does not fail for the absence of the path.
C29_NoPathNoCache ==
    (Done /\ self.filename = None)
    => /\ ~effects.loaded
       /\ ~effects.dumped
       /\ ~(ret.kind = "raise" /\ ret.err = "TypeError")

====
